---- MODULE Spec2Model ----
(***************************************************************************)
(* State-machine model of the React client of the medical image            *)
(* diagnostic assistant: the AuthContext provider, the axios api client    *)
(* with its interceptors, the route guards of App, and the pages that      *)
(* drive the REST services (Login, Dashboard, Upload, PredictionDetail,    *)
(* UserManagement).                                                        *)
(*                                                                         *)
(* Every specification below runs the same program; the specifications     *)
(* differ only in the URL the browser is opened at and in which of the     *)
(* user's gestures are exercised.                                          *)
(*                                                                         *)
(* The backend is not part of the client's sources.  Its answers are       *)
(* inputs of the response actions, except the rows of the feedback         *)
(* endpoint, which follow the service's description (one row per           *)
(* prediction, upserted).  Queries are not retried by react-query in this  *)
(* model: the QueryClient's options are set where the client is created.   *)
(***************************************************************************)
EXTENDS Integers, Sequences, FiniteSets, Bags, TLC

VARIABLES
  token,            \* localStorage['token']
  axiosAuth,        \* axios.defaults.headers.common['Authorization'] (global axios)
  user,             \* AuthProvider state
  isAuthenticated,  \* AuthProvider state
  isLoading,        \* AuthProvider state
  authError,        \* AuthProvider state
  startPc,          \* position of checkAuthStatus: "start", "awaitMe", "done"
  loginPending,     \* number of login() calls awaiting POST /api/auth/token
  loginResult,      \* value returned by the last finished login() call
  isSubmitting,     \* Login component state
  loginError,       \* Login component state `error`
  location,         \* current route path
  navPending,       \* window.location.href = '/login' assigned, document not yet reloaded
  mounted,          \* page component whose mount effects have run
  inflight,         \* bag of requests of the api client awaiting a response
  toast,            \* last toast shown
  file,             \* Upload component state
  preview,          \* Upload component state: the file the object URL shows
  imageType,        \* Upload component state
  isUploading,      \* Upload component state
  uploadProgress,   \* Upload component state
  progressTimers,   \* intervals started by the mounted Upload instance and not cleared
  routeId,          \* the :id of /predictions/:id
  images,           \* ids the image upload endpoint has answered with
  cache,            \* react-query cache: the state of each query
  feedbackRows,     \* Feedback rows the feedback endpoint stores
  predictions,      \* status of each Prediction row the prediction endpoint stores
  modal,            \* UserManagement component state: open modal and selectedUser
  pending,          \* mutations of the mounted page whose isLoading is true
  feedbackData,     \* PredictionDetail component state: feedbackData.rating
  listPage,         \* History / Reports component state: page
  listData,         \* History / Reports: `data` of the list query's result
  ev                \* the last step taken (observation only)

authVars == <<token, axiosAuth, user, isAuthenticated, isLoading, authError,
              startPc, loginPending, loginResult>>
loginVars == <<isSubmitting, loginError>>
uploadVars == <<file, preview, imageType, isUploading, uploadProgress, progressTimers>>
formVars == <<modal, pending, feedbackData, listPage, listData>>
shownVars == <<toast, routeId, images, cache, feedbackRows, predictions>>
pageVars == <<shownVars, uploadVars, formVars>>

----------------------------------------------------------------------------
(* Bounds *)

\* login() calls in flight explored
MaxPendingLogins == 2
\* requests of the api client in flight explored
MaxInflight == 3
\* progress intervals alive on one Upload instance explored
MaxTimers == 1
\* images the upload endpoint stores
MaxImages == 1
\* predictions the prediction endpoint stores
MaxPredictions == 1
\* handleUpload runs in flight explored
MaxUploadRuns == 1
MaxOverlappingRuns == 2
\* pages of the History and Reports lists explored
MaxListPage == 2

----------------------------------------------------------------------------
(* Values *)

NoToken == "none"
Tokens == {"t1", "t2"}
Roles == {"doctor", "reviewer", "admin"}
NullUser == [id |-> 0, role |-> "null"]
UserIds == {1, 2}
Null == "null"

Redirects == {307, 308}
Statuses == {0, 200, 307, 308, 401, 500}    \* 0: no response (network failure)

Details == {"Incorrect username or password"}
LoginFailed == "Login failed"
NetworkError == "Network error. Please try again."

\* the failures of POST /api/auth/token: no response, a response without a body,
\* a body without detail, a body with detail
LoginFailures ==
  {[hasResponse |-> FALSE, hasData |-> FALSE, detail |-> ""],
   [hasResponse |-> TRUE,  hasData |-> FALSE, detail |-> ""],
   [hasResponse |-> TRUE,  hasData |-> TRUE,  detail |-> ""]}
  \cup {[hasResponse |-> TRUE, hasData |-> TRUE, detail |-> d] : d \in Details}

NoToast == [type |-> "none", msg |-> "", detail |-> ""]
Toast(type, msg) == [type |-> type, msg |-> msg, detail |-> ""]

MaxUploadSize == 16 * 1024 * 1024
FileSizes == {MaxUploadSize, MaxUploadSize + 1}
NoFile == [size |-> 0 - 1, isImage |-> FALSE]
Files == [size : FileSizes, isImage : BOOLEAN]
ImageTypes == {"x-ray", "ct-scan", "mri", "brain-mri", "ultrasound"}
ImageIds == 1..MaxImages
PredictionIds == 1..MaxPredictions

\* `limit` of History and Reports
ListLimit == 10

\* the query key [name, page, limit] of a list page
ListKey(name, p) == name \o ":" \o ToString(p)
ListKeys(name) == {ListKey(name, p) : p \in 1..MaxListPage}

\* the queries of the pages, by query key
QueryKeys ==
  {"users", "prediction", "image", "feedback", "reports"}
  \cup ListKeys("diagnoses") \cup ListKeys("reports")

\* JavaScript values handed to a service function: a number, or an object with
\* skip and limit properties (Absent: the property is not there)
NaN == 0 - 1
Absent == 0 - 2
JsObject(skip, limit) == [type |-> "object", value |-> NaN, skip |-> skip, limit |-> limit]

\* Number(x): a number is itself, a plain object converts to NaN
Number(x) == IF x.type = "number" THEN x.value ELSE NaN

\* the query parameters of a request URL
NoQuery == [skip |-> Absent, limit |-> Absent]
IdleQuery == [status |-> "idle", data |-> {}, isFetching |-> FALSE, isInvalidated |-> FALSE]

\* the observation of a step: the operation, the response it handled and what the
\* api client made of it, the token stored and the user's role when it ran, the
\* message it produced and the requests it transmitted
EvNone == [op |-> "init", kind |-> "", status |-> 0, outcome |-> "", tok |-> NoToken,
           role |-> "null", msg |-> "", arg |-> 0, sent |-> {}]

----------------------------------------------------------------------------
(* Routing: App, AuthLayout, ProtectedRoute *)

ProtectedPaths == {"/dashboard", "/upload", "/predictions/:id", "/history",
                   "/reports", "/profile", "/users"}
MainLayoutPaths == ProtectedPaths \cup {"/"}

PageOf(loc) ==
  CASE loc = "/dashboard" -> "Dashboard"
    [] loc = "/upload" -> "Upload"
    [] loc = "/predictions/:id" -> "PredictionDetail"
    [] loc = "/history" -> "History"
    [] loc = "/reports" -> "Reports"
    [] loc = "/profile" -> "UserProfile"
    [] loc = "/users" -> "UserManagement"
    [] OTHER -> "NotFound"

RequiredRole(loc) == IF loc = "/users" THEN "admin" ELSE ""

AuthLayoutNoLoadingState(loading, authd) ==
  IF authd /\ ~loading THEN "redirect:/dashboard"
  ELSE "Login"

AuthLayoutRedirectsSignedOut(loading, authd) ==
  IF ~authd /\ ~loading THEN "redirect:/dashboard"
  ELSE IF loading THEN "loading"
  ELSE "Login"

AuthLayout(loading, authd) ==
  IF authd /\ ~loading THEN "redirect:/dashboard"
  ELSE IF loading THEN "loading"
  ELSE "Login"

ProtectedRouteNoRoleCheck(loc, loading, authd, usr) ==
  IF loading THEN "loading"
  ELSE IF ~authd THEN "redirect:/login"
  ELSE PageOf(loc)

ProtectedRouteNoLoadingCheck(loc, loading, authd, usr) ==
  IF ~authd THEN "redirect:/login"
  ELSE IF RequiredRole(loc) # "" /\ usr.role # RequiredRole(loc) THEN "redirect:/dashboard"
  ELSE PageOf(loc)

ProtectedRoute(loc, loading, authd, usr) ==
  IF loading THEN "loading"
  ELSE IF ~authd THEN "redirect:/login"
  ELSE IF RequiredRole(loc) # "" /\ usr.role # RequiredRole(loc) THEN "redirect:/dashboard"
  ELSE PageOf(loc)

App(loc, loading, authd, usr) ==
  IF loc = "/login" THEN AuthLayout(loading, authd)
  ELSE IF loc = "/" THEN "redirect:/dashboard"
  ELSE IF loc \in ProtectedPaths THEN ProtectedRoute(loc, loading, authd, usr)
  ELSE "NotFound"

View == App(location, isLoading, isAuthenticated, user)

RedirectTarget(v) ==
  CASE v = "redirect:/dashboard" -> "/dashboard"
    [] v = "redirect:/login" -> "/login"
    [] OTHER -> ""

\* the page component stays mounted only while the route keeps rendering it
Remount(loc, loading, authd, usr) ==
  IF App(loc, loading, authd, usr) = View THEN mounted ELSE "none"

----------------------------------------------------------------------------
(* The api client: axios instance with request and response interceptors *)

\* a request of the api client: the config (kind, arg, tag, hdr), the handler
\* awaiting it, what its closure captured (ctx) and whether the component instance that started it is still mounted.
\* The instance is created when the module is loaded, before any login, so its
\* own defaults carry no Authorization header.
Req(kind, owner, arg, tag, ctx) ==
  [kind |-> kind, owner |-> owner, arg |-> arg, tag |-> tag, ctx |-> ctx,
   val |-> 0, query |-> NoQuery, hdr |-> NoToken, live |-> TRUE]

\* predictionService.getPredictions(limit), imageService.getImages(limit) and
\* reportService.getReports(limit): GET <list>/?limit=${Number(limit)}
GetPredictions(owner, tag, limit) ==
  [Req("getPredictions", owner, 0, tag, "") EXCEPT !.query.limit = Number(limit)]

GetImages(owner, tag, limit) ==
  [Req("getImages", owner, 0, tag, "") EXCEPT !.query.limit = Number(limit)]

GetReports(owner, tag, limit) ==
  [Req("getReports", owner, 0, tag, "") EXCEPT !.query.limit = Number(limit)]

RequestInterceptor(cfgHdr, tok) ==
  IF tok # NoToken THEN tok ELSE cfgHdr

\* axios default validateStatus: 2xx fulfils, everything else rejects
ValidateStatus(status) == status >= 200 /\ status < 300

OnFulfilled(status) ==
  IF status \in Redirects THEN "reissue" ELSE "resolve"

OnRejectedNo401(status) ==
  IF status # 0 /\ status \in Redirects THEN "reissue" ELSE "reject"

OnRejectedRetry5xx(status) ==
  IF status # 0 /\ status = 401 THEN "reject401"
  ELSE IF status # 0 /\ (status \in Redirects \/ status >= 500) THEN "reissue"
  ELSE "reject"

OnRejected(status) ==
  IF status # 0 /\ status = 401 THEN "reject401"
  ELSE IF status # 0 /\ status \in Redirects THEN "reissue"
  ELSE "reject"

ResponseInterceptor(status) ==
  IF ValidateStatus(status) THEN OnFulfilled(status) ELSE OnRejected(status)

\* one transmission of request r with the token stored now
Transmit(r) ==
  [r EXCEPT !.hdr = RequestInterceptor(r.hdr, token)]

One(r) == SetToBag({r})

\* requests whose component instance was unmounted keep running, detached
DetachBag(b) ==
  LET S == {[r EXCEPT !.live = FALSE] : r \in DOMAIN b}
      Cnt(x) == (IF x \in DOMAIN b THEN b[x] ELSE 0)
                + (IF [x EXCEPT !.live = TRUE] \in DOMAIN b
                   THEN b[[x EXCEPT !.live = TRUE]] ELSE 0)
  IN [x \in S |-> Cnt(x)]

Rerender(loc, loading, authd, usr, b) ==
  IF App(loc, loading, authd, usr) = View THEN b ELSE DetachBag(b)

\* the state of a page component is destroyed when the route stops rendering it
UploadInitial ==
  /\ file' = NoFile
  /\ preview' = NoFile
  /\ imageType' = "x-ray"
  /\ isUploading' = FALSE
  /\ uploadProgress' = 0
  /\ progressTimers' = 0

NoModal == [open |-> "none", selectedUser |-> 0]

\* the initial state of the forms of UserManagement and PredictionDetail
FormsInitial ==
  /\ modal' = NoModal
  /\ pending' = {}
  /\ feedbackData' = 0
  /\ listPage' = 1
  /\ listData' = {}

Unmounted == UploadInitial /\ FormsInitial

Rendered(loc, loading, authd, usr) ==
  IF App(loc, loading, authd, usr) = View
  THEN UNCHANGED <<uploadVars, formVars>>
  ELSE Unmounted

Ev(op) == [EvNone EXCEPT !.op = op, !.tok = token, !.role = user.role]

EvSent(op, rs) == [Ev(op) EXCEPT !.sent = rs]

EvResp(op, r, status, rs) ==
  [Ev(op) EXCEPT !.kind = r.kind, !.status = status,
                 !.outcome = ResponseInterceptor(status), !.sent = rs]

----------------------------------------------------------------------------
(* AuthProvider: checkAuthStatus, login, logout *)

CheckAuthStatus ==
  /\ startPc = "start"
  /\ IF token # NoToken
     THEN /\ axiosAuth' = token
          /\ startPc' = "awaitMe"
          /\ UNCHANGED <<isLoading, mounted, inflight, uploadVars, formVars>>
     ELSE /\ startPc' = "done"
          /\ isLoading' = FALSE
          /\ mounted' = Remount(location, FALSE, isAuthenticated, user)
          /\ inflight' = Rerender(location, FALSE, isAuthenticated, user, inflight)
          /\ Rendered(location, FALSE, isAuthenticated, user)
          /\ UNCHANGED axiosAuth
  /\ ev' = Ev("checkAuthStatus")
  /\ UNCHANGED <<token, user, isAuthenticated, authError, loginPending, loginResult,
                 loginVars, location, navPending, shownVars>>

StoredTokenAfterRejectedCheckKept(tok) == tok

\* checkAuthStatus' catch block: localStorage.removeItem('token')
StoredTokenAfterRejectedCheck(tok) == NoToken

\* GET /api/auth/me answered: ok with the user's record, or any failure
CheckAuthStatusResponse(ok, role) ==
  /\ startPc = "awaitMe"
  /\ startPc' = "done"
  /\ isLoading' = FALSE
  /\ IF ok
     THEN /\ user' = [id |-> 1, role |-> role]
          /\ isAuthenticated' = TRUE
          /\ UNCHANGED <<token, axiosAuth>>
     ELSE /\ token' = StoredTokenAfterRejectedCheck(token)
          /\ axiosAuth' = NoToken
          /\ UNCHANGED <<user, isAuthenticated>>
  /\ mounted' = Remount(location, FALSE, isAuthenticated', user')
  /\ inflight' = Rerender(location, FALSE, isAuthenticated', user', inflight)
  /\ ev' = [Ev("checkAuthStatusResponse") EXCEPT !.outcome = IF ok THEN "resolve" ELSE "reject"]
  /\ UNCHANGED <<authError, loginPending, loginResult, loginVars, location,
                 navPending, shownVars>>
  /\ Rendered(location, FALSE, isAuthenticated', user')

LoginErrorMessageGeneric(f) ==
  IF f.hasResponse /\ f.hasData THEN LoginFailed ELSE NetworkError

LoginErrorMessage(f) ==
  IF f.hasResponse /\ f.hasData
  THEN (IF f.detail # "" THEN f.detail ELSE LoginFailed)
  ELSE NetworkError

\* Login.handleSubmit up to the await inside login()
LoginSubmit ==
  /\ View = "Login" /\ mounted = "Login"
  /\ ~isSubmitting
  /\ loginPending < MaxPendingLogins
  /\ isSubmitting' = TRUE
  /\ loginError' = Null
  /\ isLoading' = TRUE
  /\ authError' = Null
  /\ loginPending' = loginPending + 1
  /\ mounted' = Remount(location, TRUE, isAuthenticated, user)
  /\ inflight' = Rerender(location, TRUE, isAuthenticated, user, inflight)
  /\ ev' = Ev("loginSubmit")
  /\ UNCHANGED <<token, axiosAuth, user, isAuthenticated, startPc, loginResult,
                 location, navPending, shownVars>>
  /\ Rendered(location, TRUE, isAuthenticated, user)

\* POST /api/auth/token answered 2xx: rest of login() and of handleSubmit
LoginSuccess(tok, role) ==
  /\ loginPending > 0
  /\ loginPending' = loginPending - 1
  /\ token' = tok
  /\ axiosAuth' = tok
  /\ user' = [id |-> 1, role |-> role]
  /\ isAuthenticated' = TRUE
  /\ isLoading' = FALSE
  /\ loginResult' = [success |-> TRUE, error |-> Null]
  /\ location' = "/dashboard"
  /\ isSubmitting' = IF mounted = "Login" THEN FALSE ELSE isSubmitting
  /\ mounted' = Remount("/dashboard", FALSE, TRUE, user')
  /\ inflight' = Rerender("/dashboard", FALSE, TRUE, user', inflight)
  /\ ev' = [Ev("loginResponse") EXCEPT !.outcome = "resolve", !.tok = tok]
  /\ UNCHANGED <<authError, startPc, loginError, navPending, shownVars>>
  /\ Rendered("/dashboard", FALSE, TRUE, user')

\* POST /api/auth/token failed: catch and finally of login(), rest of handleSubmit
LoginFailure(f) ==
  /\ loginPending > 0
  /\ loginPending' = loginPending - 1
  /\ authError' = LoginErrorMessage(f)
  /\ loginResult' = [success |-> FALSE, error |-> LoginErrorMessage(f)]
  /\ isLoading' = FALSE
  /\ loginError' = IF mounted = "Login" THEN LoginErrorMessage(f) ELSE loginError
  /\ isSubmitting' = IF mounted = "Login" THEN FALSE ELSE isSubmitting
  /\ mounted' = Remount(location, FALSE, isAuthenticated, user)
  /\ inflight' = Rerender(location, FALSE, isAuthenticated, user, inflight)
  /\ ev' = [Ev("loginResponse") EXCEPT !.outcome = "reject", !.msg = f.detail]
  /\ UNCHANGED <<token, axiosAuth, user, isAuthenticated, startPc, location,
                 navPending, shownVars>>
  /\ Rendered(location, FALSE, isAuthenticated, user)

\* what logout() reads and writes: localStorage['token'], the default
\* Authorization header, user and isAuthenticated
Session ==
  [token |-> token, axiosAuth |-> axiosAuth, user |-> user,
   isAuthenticated |-> isAuthenticated]

LogoutKeepsHeader(s) ==
  [s EXCEPT !.token = NoToken, !.user = NullUser, !.isAuthenticated = FALSE]

\* logout(): removeItem('token'), delete the default header, setUser(null),
\* setIsAuthenticated(false)
LogoutSession(s) ==
  [s EXCEPT !.token = NoToken, !.axiosAuth = NoToken, !.user = NullUser,
            !.isAuthenticated = FALSE]

\* MainLayout.handleLogout: logout() then navigate('/login')
Logout ==
  /\ location \in MainLayoutPaths
  /\ RedirectTarget(View) = ""
  /\ token' = LogoutSession(Session).token
  /\ axiosAuth' = LogoutSession(Session).axiosAuth
  /\ user' = LogoutSession(Session).user
  /\ isAuthenticated' = LogoutSession(Session).isAuthenticated
  /\ location' = "/login"
  /\ mounted' = "none"
  /\ inflight' = DetachBag(inflight)
  /\ ev' = Ev("logout")
  /\ UNCHANGED <<isLoading, authError, startPc, loginPending, loginResult, loginVars,
                 navPending, shownVars>>
  /\ Unmounted

\* <Navigate to=...> rendered by a route guard
Redirect ==
  /\ RedirectTarget(View) # ""
  /\ location' = RedirectTarget(View)
  /\ mounted' = "none"
  /\ inflight' = DetachBag(inflight)
  /\ ev' = [Ev("redirect") EXCEPT !.msg = RedirectTarget(View)]
  /\ UNCHANGED <<authVars, loginVars, navPending, shownVars>>
  /\ Unmounted

\* the document is reloaded at /login after window.location.href = '/login':
\* all in-memory state is lost, localStorage is kept
PageLoad ==
  /\ navPending
  /\ navPending' = FALSE
  /\ location' = "/login"
  /\ axiosAuth' = NoToken
  /\ user' = NullUser
  /\ isAuthenticated' = FALSE
  /\ isLoading' = TRUE
  /\ authError' = Null
  /\ startPc' = "start"
  /\ loginPending' = 0
  /\ loginResult' = [success |-> FALSE, error |-> Null]
  /\ isSubmitting' = FALSE
  /\ loginError' = Null
  /\ mounted' = "none"
  /\ inflight' = EmptyBag
  /\ toast' = NoToast
  /\ ev' = Ev("pageLoad")
  /\ Unmounted
  /\ cache' = [k \in QueryKeys |-> IdleQuery]
  /\ UNCHANGED <<token, routeId, images, feedbackRows, predictions>>

\* the Login page is rendered: a fresh component instance
MountLogin ==
  /\ View = "Login" /\ mounted # "Login"
  /\ mounted' = "Login"
  /\ isSubmitting' = FALSE
  /\ loginError' = Null
  /\ ev' = Ev("mountLogin")
  /\ UNCHANGED <<authVars, location, navPending, inflight, pageVars>>

\* what the Login page shows in its error box: {error || authError}
LoginDisplayedError == IF loginError # Null THEN loginError ELSE authError

----------------------------------------------------------------------------
(* Dashboard *)

\* mount effects: the recentDiagnoses query and fetchStats' two parallel requests
MountDashboard ==
  /\ View = "Dashboard" /\ mounted # "Dashboard"
  /\ BagCardinality(inflight) + 3 <= MaxInflight
  /\ mounted' = "Dashboard"
  /\ LET q == Transmit(GetPredictions("recentDiagnoses", "", JsObject(Absent, 5)))
         a == Transmit(GetImages("fetchStats", "", JsObject(Absent, 1)))
         b == Transmit(GetPredictions("fetchStats", "", JsObject(Absent, 1)))
     IN /\ inflight' = inflight (+) One(q) (+) One(a) (+) One(b)
        /\ ev' = EvSent("mountDashboard", {q, a, b})
  /\ UNCHANGED <<authVars, loginVars, location, navPending, pageVars>>

----------------------------------------------------------------------------
(* Responses to the api client *)

\* a 307/308 response: the interceptor re-issues the request with its old config
Reissue(r, status) ==
  /\ BagIn(r, inflight)
  /\ ResponseInterceptor(status) = "reissue"
  /\ inflight' = (inflight (-) One(r)) (+) One(Transmit(r))
  /\ ev' = EvResp("response", r, status, {Transmit(r)})
  /\ UNCHANGED <<authVars, loginVars, location, navPending, mounted, pageVars>>

\* what the response interceptor does to the client's state before it settles
\* the promise
Settles(r, status) ==
  /\ BagIn(r, inflight)
  /\ ResponseInterceptor(status) \in {"resolve", "reject", "reject401"}
  /\ token' = IF ResponseInterceptor(status) = "reject401" THEN NoToken ELSE token
  /\ navPending' = (navPending \/ ResponseInterceptor(status) = "reject401")

\* the Dashboard's requests settle: nothing but the list and the counters change
SettleDashboard(r, status) ==
  /\ r.owner \in {"recentDiagnoses", "fetchStats"}
  /\ Settles(r, status)
  /\ inflight' = inflight (-) One(r)
  /\ ev' = EvResp("response", r, status, {})
  /\ UNCHANGED <<axiosAuth, user, isAuthenticated, isLoading, authError, startPc,
                 loginPending, loginResult, loginVars, location, mounted, pageVars>>

----------------------------------------------------------------------------
(* MainLayout navigation *)

Navigation(usr) ==
  {"/dashboard", "/upload", "/history", "/reports", "/profile"}
  \cup (IF usr # NullUser /\ usr.role = "admin" THEN {"/users"} ELSE {})

\* a click on a sidebar NavLink
Navigate(p) ==
  /\ location \in MainLayoutPaths
  /\ RedirectTarget(View) = ""
  /\ p \in Navigation(user)
  /\ p # location
  /\ location' = p
  /\ mounted' = Remount(p, isLoading, isAuthenticated, user)
  /\ inflight' = Rerender(p, isLoading, isAuthenticated, user, inflight)
  /\ ev' = [Ev("navigate") EXCEPT !.msg = p]
  /\ UNCHANGED <<authVars, loginVars, navPending, shownVars>>
  /\ Rendered(p, isLoading, isAuthenticated, user)

----------------------------------------------------------------------------
(* Upload *)

\* the Upload page is rendered: a fresh component instance
MountUpload ==
  /\ View = "Upload" /\ mounted # "Upload"
  /\ mounted' = "Upload"
  /\ ev' = Ev("mountUpload")
  /\ UNCHANGED <<authVars, loginVars, location, navPending, inflight, pageVars>>
  /\ UNCHANGED <<cache, feedbackRows, predictions, formVars>>

OnDropRejectsNoSizeCheck(f) ==
  IF ~f.isImage THEN "Please upload a valid image file"
  ELSE ""

\* the checks of onDrop: the error shown, or "" when the file is taken
OnDropRejects(f) ==
  IF ~f.isImage THEN "Please upload a valid image file"
  ELSE IF f.size > 16 * 1024 * 1024 THEN "File size exceeds 16MB limit"
  ELSE ""

\* a file is dropped on the dropzone, which is rendered only while no file is
\* selected
OnDrop(f) ==
  /\ View = "Upload" /\ mounted = "Upload"
  /\ file = NoFile
  /\ IF OnDropRejects(f) # ""
     THEN /\ toast' = Toast("error", OnDropRejects(f))
          /\ UNCHANGED <<file, preview>>
     ELSE /\ file' = f
          /\ preview' = f
          /\ UNCHANGED toast
  /\ ev' = [Ev("onDrop") EXCEPT !.arg = f.size, !.outcome = OnDropRejects(f),
                                !.msg = IF f.isImage THEN "image" ELSE "other"]
  /\ UNCHANGED <<authVars, loginVars, location, navPending, mounted, inflight,
                 imageType, isUploading, uploadProgress, progressTimers, routeId, images>>
  /\ UNCHANGED <<cache, feedbackRows, predictions, formVars>>

\* the clear button, disabled while uploading
ClearFile ==
  /\ View = "Upload" /\ mounted = "Upload"
  /\ file # NoFile
  /\ ~isUploading
  /\ file' = NoFile
  /\ preview' = NoFile
  /\ ev' = Ev("clearFile")
  /\ UNCHANGED <<authVars, loginVars, location, navPending, mounted, inflight, toast,
                 imageType, isUploading, uploadProgress, progressTimers, routeId, images>>
  /\ UNCHANGED <<cache, feedbackRows, predictions, formVars>>

\* the image type select, disabled while uploading
SetImageType(t) ==
  /\ View = "Upload" /\ mounted = "Upload"
  /\ ~isUploading
  /\ t # imageType
  /\ imageType' = t
  /\ ev' = [Ev("setImageType") EXCEPT !.msg = t]
  /\ UNCHANGED <<authVars, loginVars, location, navPending, mounted, inflight, toast,
                 file, preview, isUploading, uploadProgress, progressTimers, routeId, images>>
  /\ UNCHANGED <<cache, feedbackRows, predictions, formVars>>

\* the models section of the configuration file
ConfiguredModels == {"chest-xray", "brain-mri"}

GetModelNameForImageTypeNoDefault(type) ==
  CASE type = "x-ray" -> "chest-xray"
    [] type = "brain-mri" -> "brain-mri"
    [] OTHER -> type

GetModelNameForImageType(type) ==
  CASE type = "x-ray" -> "chest-xray"
    [] type = "brain-mri" -> "brain-mri"
    [] OTHER -> "chest-xray"

\* imageService.uploadImage(file, imageType): the service takes one parameter,
\* posts it as the body and drops the second argument.  arg is the body (the
\* file), tag the image type the request carries (none), ctx the imageType that
\* handleUpload's closure keeps for createPrediction
UploadImage(f, type) ==
  Req("uploadImage", "handleUpload", f.size, "", type)

CreatePredictionStaleId(imageId, type) ==
  Req("createPrediction", "handleUpload", 0, GetModelNameForImageType(type), type)

\* predictionService.createPrediction({image_id, model_name})
CreatePrediction(imageId, type) ==
  Req("createPrediction", "handleUpload", imageId, GetModelNameForImageType(type), type)

UploadRuns ==
  LET own == {r \in DOMAIN inflight : r.owner = "handleUpload"}
  IN BagCardinality([r \in own |-> inflight[r]])

\* the Upload and Analyze button (disabled without a file and while uploading):
\* handleUpload up to its first await, explored while fewer than runs runs of
\* handleUpload (of this or of an unmounted instance) are in flight
HandleUploadUpTo(runs) ==
  /\ View = "Upload" /\ mounted = "Upload"
  /\ file # NoFile
  /\ ~isUploading
  /\ BagCardinality(inflight) < MaxInflight
  /\ UploadRuns < runs
  /\ progressTimers < MaxTimers
  /\ isUploading' = TRUE
  /\ uploadProgress' = 0
  /\ toast' = Toast("loading", "Uploading image...")
  /\ progressTimers' = progressTimers + 1
  /\ LET r == Transmit(UploadImage(file, imageType))
     IN /\ inflight' = inflight (+) One(r)
        /\ ev' = EvSent("handleUpload", {r})
  /\ UNCHANGED <<authVars, loginVars, location, navPending, mounted, file, preview,
                 imageType, routeId, images>>
  /\ UNCHANGED <<cache, feedbackRows, predictions, formVars>>

HandleUpload == HandleUploadUpTo(MaxUploadRuns)

\* one tick of a progress interval of the mounted instance
ProgressTick ==
  /\ mounted = "Upload"
  /\ progressTimers > 0
  /\ uploadProgress' = IF uploadProgress + 10 > 90 THEN 90 ELSE uploadProgress + 10
  /\ uploadProgress' # uploadProgress
  /\ ev' = Ev("progressTick")
  /\ UNCHANGED <<authVars, loginVars, location, navPending, mounted, inflight, toast,
                 file, preview, imageType, isUploading, progressTimers, routeId, images>>
  /\ UNCHANGED <<cache, feedbackRows, predictions, formVars>>

\* the toast of handleUpload's catch block
UploadErrorToast(status, detail) ==
  IF status # 0 /\ detail # ""
  THEN [type |-> "error", msg |-> "Upload failed: ", detail |-> detail]
  ELSE Toast("error", "Upload failed. Please try again.")

\* the upload request settles: the rest of handleUpload up to its second await,
\* or its catch and finally
SettleUpload(r, status, id, detail) ==
  /\ r.kind = "uploadImage"
  /\ Settles(r, status)
  /\ IF ResponseInterceptor(status) = "resolve"
     THEN /\ id = Cardinality(images) + 1
          /\ images' = images \cup {id}
          /\ progressTimers' = IF r.live THEN progressTimers - 1 ELSE progressTimers
          /\ uploadProgress' = IF r.live THEN 100 ELSE uploadProgress
          /\ toast' = Toast("loading", "Analyzing image with AI...")
          /\ LET c == [Transmit(CreatePrediction(id, r.ctx)) EXCEPT !.live = r.live]
             IN /\ inflight' = (inflight (-) One(r)) (+) One(c)
                /\ ev' = [EvResp("response", r, status, {c}) EXCEPT !.arg = id]
          /\ UNCHANGED isUploading
     ELSE /\ toast' = UploadErrorToast(status, detail)
          /\ isUploading' = IF r.live THEN FALSE ELSE isUploading
          /\ uploadProgress' = IF r.live THEN 0 ELSE uploadProgress
          /\ inflight' = inflight (-) One(r)
          /\ ev' = [EvResp("response", r, status, {}) EXCEPT !.msg = detail]
          /\ UNCHANGED <<images, progressTimers>>
  /\ UNCHANGED <<axiosAuth, user, isAuthenticated, isLoading, authError, startPc,
                 loginPending, loginResult, loginVars, location, mounted, file, preview,
                 imageType, routeId>>
  /\ UNCHANGED <<cache, feedbackRows, predictions, formVars>>

\* the prediction endpoint persists a new row with status completed
NewPredictionStatus == "completed"

\* the create-prediction request settles: the rest of handleUpload
SettlePrediction(r, status, id, detail) ==
  /\ r.kind = "createPrediction"
  /\ Settles(r, status)
  /\ IF ResponseInterceptor(status) = "resolve"
     THEN /\ predictions[id] = "none"
          /\ predictions' = [predictions EXCEPT ![id] = NewPredictionStatus]
          /\ toast' = Toast("success", "Analysis complete")
          /\ Rendered("/predictions/:id", isLoading, isAuthenticated, user)
          /\ location' = "/predictions/:id"
          /\ routeId' = id
          /\ mounted' = Remount("/predictions/:id", isLoading, isAuthenticated, user)
          /\ inflight' = Rerender("/predictions/:id", isLoading, isAuthenticated, user,
                                  inflight (-) One(r))
          /\ ev' = [EvResp("response", r, status, {}) EXCEPT !.arg = id]
     ELSE /\ toast' = UploadErrorToast(status, detail)
          /\ isUploading' = IF r.live THEN FALSE ELSE isUploading
          /\ uploadProgress' = IF r.live THEN 0 ELSE uploadProgress
          /\ inflight' = inflight (-) One(r)
          /\ ev' = [EvResp("response", r, status, {}) EXCEPT !.msg = detail]
          /\ UNCHANGED <<location, routeId, mounted, file, preview, imageType,
                         progressTimers, formVars, predictions>>
  /\ UNCHANGED <<axiosAuth, user, isAuthenticated, isLoading, authError, startPc,
                 loginPending, loginResult, loginVars, images>>
  /\ UNCHANGED <<cache, feedbackRows>>

----------------------------------------------------------------------------
(* react-query: the queries and mutations of UserManagement and PredictionDetail *)

\* the pages that show a paginated list, and the name in their query key
ListPages == {"History", "Reports"}
ListName(page) == IF page = "History" THEN "diagnoses" ELSE "reports"
AllListKeys == ListKeys("diagnoses") \cup ListKeys("reports")
PageOfKey(k) == CHOOSE p \in 1..MaxListPage : k \in {ListKey("diagnoses", p), ListKey("reports", p)}

QueryKind(k) ==
  CASE k = "users" -> "getUsers"
    [] k \in ListKeys("diagnoses") -> "getPredictions"
    [] k = "prediction" -> "getPrediction"
    [] k = "image" -> "getImage"
    [] k = "feedback" -> "getFeedback"
    [] OTHER -> "getReports"

\* the `enabled` option of the users query
UsersQueryEnabled(usr) == usr # NullUser /\ usr.role = "admin"

\* the queries the mounted page observes and has enabled
ActiveQueries(page, usr, c) ==
  CASE page = "UserManagement" -> IF UsersQueryEnabled(usr) THEN {"users"} ELSE {}
    [] page = "PredictionDetail" ->
         {"prediction", "feedback"} \cup (IF c["prediction"].data # {} THEN {"image"} ELSE {})
    [] page \in ListPages -> {ListKey(ListName(page), listPage)}
    [] OTHER -> {}

\* the argument of the query function: the route's id, or prediction.image_id
QueryArg(k, c) ==
  CASE k \in {"prediction", "feedback"} -> routeId
    [] k = "image" -> CHOOSE i \in c["prediction"].data : TRUE
    [] OTHER -> 0

\* the queries of K that start a fetch: a query already fetching is not fetched twice
Fetching(c, K) == {k \in K : ~c[k].isFetching}

\* the query function of a list page:
\* getPredictions({skip: (page - 1) * limit, limit}) or getReports({...})
ListQuery(k) ==
  LET params == JsObject((PageOfKey(k) - 1) * ListLimit, ListLimit)
  IN IF k \in ListKeys("diagnoses")
     THEN GetPredictions("query", k, params)
     ELSE GetReports("query", k, params)

QueryFn(k, c) ==
  IF k \in AllListKeys THEN ListQuery(k)
  ELSE Req(QueryKind(k), "query", QueryArg(k, c), k, "")

QueryRequests(c, K) == {Transmit(QueryFn(k, c)) : k \in Fetching(c, K)}

StartFetch(c, K) ==
  [k \in QueryKeys |->
     IF k \in Fetching(c, K)
     THEN [c[k] EXCEPT !.isFetching = TRUE,
                       !.status = IF c[k].data = {} THEN "loading" ELSE c[k].status]
     ELSE c[k]]

\* queryClient.invalidateQueries(key)
InvalidateQueries(c, K) ==
  [k \in QueryKeys |-> IF k \in K THEN [c[k] EXCEPT !.isInvalidated = TRUE] ELSE c[k]]

\* what UserManagement renders
UserManagementView(usr, q) ==
  IF usr # NullUser /\ usr.role # "admin" THEN "AccessDenied"
  ELSE IF q.status = "loading" THEN "loading"
  ELSE IF q.status = "error" THEN "error"
  ELSE IF q.data = {} THEN "empty"
  ELSE "table"

\* what PredictionDetail renders
PredictionDetailView(c) ==
  IF c["prediction"].status = "loading" \/ c["image"].status = "loading" THEN "loading"
  ELSE IF c["prediction"].status = "error" THEN "error"
  ELSE "detail"

\* keepPreviousData: the result's data is the query's own once it has some,
\* and the data returned before until then
KeptData(c, k, previous) == IF c[k].status = "success" THEN c[k].data ELSE previous

\* what History and Reports render below their filters
ListView(page, c, p, data) ==
  LET q == c[ListKey(ListName(page), p)]
  IN IF q.status \in {"idle", "loading"} /\ data = {} THEN "loading"
     ELSE IF q.status = "error" THEN "error"
     ELSE IF data = {} THEN "empty"
     ELSE "table"

\* a page with queries is rendered: a fresh component instance whose queries
\* fetch on mount
MountQueries(page, op) ==
  /\ View = page /\ mounted # page
  /\ LET K == ActiveQueries(page, user, cache)
         rs == QueryRequests(cache, K)
     IN /\ BagCardinality(inflight) + Cardinality(rs) <= MaxInflight
        /\ cache' = StartFetch(cache, K)
        /\ inflight' = inflight (+) SetToBag(rs)
        /\ ev' = EvSent(op, rs)
  /\ mounted' = page
  /\ listData' = IF page \in ListPages
                 THEN KeptData(cache, ListKey(ListName(page), listPage), listData)
                 ELSE listData
  /\ UNCHANGED <<authVars, loginVars, location, navPending, toast, routeId, images,
                 feedbackRows, predictions, uploadVars, modal, pending, feedbackData,
                 listPage>>

MountUserManagement == MountQueries("UserManagement", "mountUserManagement")

MountPredictionDetail == MountQueries("PredictionDetail", "mountPredictionDetail")

MountHistory == MountQueries("History", "mountHistory")

MountReports == MountQueries("Reports", "mountReports")

\* the pagination buttons are rendered below the table
ListShown(page) ==
  /\ page \in ListPages
  /\ View = page /\ mounted = page
  /\ ListView(page, cache, listPage, listData) = "table"

\* setPage(p): the query key changes, the query of the new key is fetched and
\* the result keeps the previous data until that query has its own
SetPage(page, p, op) ==
  LET K == {ListKey(ListName(page), p)}
      rs == QueryRequests(cache, K)
  IN /\ BagCardinality(inflight) + Cardinality(rs) <= MaxInflight
     /\ listPage' = p
     /\ listData' = KeptData(cache, ListKey(ListName(page), p), listData)
     /\ cache' = StartFetch(cache, K)
     /\ inflight' = inflight (+) SetToBag(rs)
     /\ ev' = EvSent(op, rs)
     /\ UNCHANGED <<authVars, loginVars, location, navPending, mounted, toast, routeId,
                    images, feedbackRows, predictions, uploadVars, modal, pending,
                    feedbackData>>

\* the `disabled` attribute of the Next button
NextDisabled(data) == data = {} \/ Cardinality(data) < ListLimit

\* the Next button: handleNextPage
HandleNextPage(page) ==
  /\ ListShown(page)
  /\ ~NextDisabled(listData)
  /\ Cardinality(listData) = ListLimit
  /\ listPage < MaxListPage
  /\ SetPage(page, listPage + 1, "handleNextPage")

\* the Previous button (disabled on page 1): handlePreviousPage
HandlePreviousPage(page) ==
  /\ ListShown(page)
  /\ listPage # 1
  /\ SetPage(page, IF listPage - 1 > 1 THEN listPage - 1 ELSE 1, "handlePreviousPage")

\* a gesture on a page that changes nothing but the page's forms
FormStep(op) ==
  /\ ev' = Ev(op)
  /\ UNCHANGED <<authVars, loginVars, location, navPending, mounted, inflight,
                 shownVars, uploadVars>>

\* a mutation is started: mutate(variables)
Mutate(op, r) ==
  /\ BagCardinality(inflight) < MaxInflight
  /\ inflight' = inflight (+) One(Transmit(r))
  /\ ev' = EvSent(op, {Transmit(r)})
  /\ UNCHANGED <<authVars, loginVars, location, navPending, mounted, shownVars,
                 uploadVars, modal, feedbackData, listPage, listData>>

UserManagementShown ==
  /\ View = "UserManagement" /\ mounted = "UserManagement"
  /\ UserManagementView(user, cache["users"]) # "AccessDenied"

\* the rows whose edit and delete buttons are enabled
EditableUsers ==
  IF UserManagementView(user, cache["users"]) = "table"
  THEN cache["users"].data \ {user.id} ELSE {}

\* the Add User button
OpenAddModal ==
  /\ UserManagementShown
  /\ modal.open = "none"
  /\ modal' = [modal EXCEPT !.open = "add"]
  /\ FormStep("openAddModal")
  /\ UNCHANGED <<pending, feedbackData, listPage, listData>>

OpenEditModal(u) ==
  /\ UserManagementShown
  /\ modal.open = "none"
  /\ u \in EditableUsers
  /\ modal' = [open |-> "edit", selectedUser |-> u]
  /\ FormStep("openEditModal")
  /\ UNCHANGED <<pending, feedbackData, listPage, listData>>

\* the close and cancel buttons of the modals
CloseModal ==
  /\ UserManagementShown
  /\ modal.open # "none"
  /\ modal' = IF modal.open = "edit" THEN NoModal ELSE [modal EXCEPT !.open = "none"]
  /\ FormStep("closeModal")
  /\ UNCHANGED <<pending, feedbackData, listPage, listData>>

\* the submit button of the add form, disabled while addUserMutation.isLoading
HandleAddUser ==
  /\ UserManagementShown
  /\ modal.open = "add"
  /\ "createUser" \notin pending
  /\ pending' = pending \cup {"createUser"}
  /\ Mutate("handleAddUser", Req("createUser", "mutation", 0, "", ""))

\* the submit button of the edit form, disabled while updateUserMutation.isLoading
HandleUpdateUser ==
  /\ UserManagementShown
  /\ modal.open = "edit"
  /\ modal.selectedUser # 0
  /\ "updateUser" \notin pending
  /\ pending' = pending \cup {"updateUser"}
  /\ Mutate("handleUpdateUser", Req("updateUser", "mutation", modal.selectedUser, "", ""))

\* the delete button of a row, after window.confirm
HandleDeleteUser(u, confirmed) ==
  /\ UserManagementShown
  /\ modal.open = "none"
  /\ u \in EditableUsers
  /\ UNCHANGED pending
  /\ IF confirmed
     THEN Mutate("handleDeleteUser", Req("deleteUser", "mutation", u, "", ""))
     ELSE FormStep("handleDeleteUser") /\ UNCHANGED <<modal, feedbackData, listPage, listData>>

PredictionDetailShown ==
  /\ View = "PredictionDetail" /\ mounted = "PredictionDetail"
  /\ PredictionDetailView(cache) = "detail"

\* the feedback form replaces the feedback card while the feedback query has no data
FeedbackFormShown == PredictionDetailShown /\ cache["feedback"].data = {}

RatingOptions == {"0", "1", "2", "3", "4", "5"}

ParseInt(s) ==
  CASE s = "0" -> 0 [] s = "1" -> 1 [] s = "2" -> 2
    [] s = "3" -> 3 [] s = "4" -> 4 [] s = "5" -> 5

\* the rating select of the feedback form
HandleFeedbackChange(v) ==
  /\ FeedbackFormShown
  /\ v \in RatingOptions
  /\ feedbackData' = ParseInt(v)
  /\ feedbackData' # feedbackData
  /\ FormStep("handleFeedbackChange")
  /\ UNCHANGED <<modal, pending, listPage, listData>>

FeedbackRequestNoId(id, rating) ==
  [Req("createFeedback", "mutation", 0, "", "") EXCEPT !.val = rating]

\* feedbackService.createFeedback(feedbackData): diagnosis_id is the route's id
FeedbackRequest(id, rating) ==
  [Req("createFeedback", "mutation", id, "", "") EXCEPT !.val = rating]

SubmitFeedbackDisabledNoRating(loading, rating) == loading

\* the `disabled` attribute of the submit button of the feedback form
SubmitFeedbackDisabled(loading, rating) == loading \/ rating = 0

\* the feedback form's onSubmit, reached through its submit button
HandleSubmitFeedback ==
  /\ FeedbackFormShown
  /\ ~SubmitFeedbackDisabled("createFeedback" \in pending, feedbackData)
  /\ pending' = pending \cup {"createFeedback"}
  /\ Mutate("handleSubmitFeedback", FeedbackRequest(routeId, feedbackData))

\* the submit button of the report form, disabled while the mutation is loading
HandleGenerateReport ==
  /\ PredictionDetailShown
  /\ "createReport" \notin pending
  /\ pending' = pending \cup {"createReport"}
  /\ Mutate("handleGenerateReport", Req("createReport", "mutation", routeId, "", ""))

UserMutations == {"createUser", "updateUser", "deleteUser"}

\* the toast of a mutation's onSuccess
MutationSuccessToast(kind) ==
  CASE kind = "createUser" -> Toast("success", "User created successfully")
    [] kind = "updateUser" -> Toast("success", "User updated successfully")
    [] kind = "deleteUser" -> Toast("success", "User deleted successfully")
    [] kind = "createFeedback" -> Toast("success", "Feedback submitted successfully")
    [] OTHER -> Toast("success", "Report generation started. It will be available in the Reports section soon.")

\* the toast of a mutation's onError
MutationErrorToast(kind, status, detail) ==
  CASE kind = "createUser" ->
         Toast("error", IF status # 0 /\ detail # "" THEN detail ELSE "Failed to create user")
    [] kind = "updateUser" ->
         Toast("error", IF status # 0 /\ detail # "" THEN detail ELSE "Failed to update user")
    [] kind = "deleteUser" ->
         Toast("error", IF status # 0 /\ detail # "" THEN detail ELSE "Failed to delete user")
    [] kind = "createFeedback" -> Toast("error", "Failed to submit feedback")
    [] OTHER -> Toast("error", "Failed to generate report")

\* the query keys a mutation's onSuccess invalidates
Invalidates(kind) == IF kind \in UserMutations THEN {"users"} ELSE {}

\* the modal state after a mutation's onSuccess
ModalAfter(kind, m) ==
  CASE kind = "createUser" -> [m EXCEPT !.open = IF m.open = "add" THEN "none" ELSE m.open]
    [] kind = "updateUser" -> [open |-> IF m.open = "edit" THEN "none" ELSE m.open,
                               selectedUser |-> 0]
    [] OTHER -> m

\* the rows of the feedback store that reference prediction id
RowsOf(rows, id) == {i \in DOMAIN rows : rows[i].diagnosis_id = id}

\* the feedback endpoint stores a submission: one row per prediction
Upsert(rows, id, rating) ==
  IF RowsOf(rows, id) # {}
  THEN [i \in DOMAIN rows |->
          IF i \in RowsOf(rows, id) THEN [diagnosis_id |-> id, rating |-> rating] ELSE rows[i]]
  ELSE Append(rows, [diagnosis_id |-> id, rating |-> rating])

\* the endpoint rejects a submission for a prediction that does not exist
FeedbackAccepted(r) ==
  r.kind = "createFeedback" => (r.arg \in PredictionIds /\ predictions[r.arg] # "none")

StatusAfterFeedbackKept(status) == status

\* the status of a prediction is set to reviewed once Feedback exists for it
StatusAfterFeedback(status) == "reviewed"

\* a mutation's request settles: onSuccess or onError of the useMutation options,
\* which run whether or not the page is still mounted
SettleMutation(r, status, detail) ==
  /\ r.owner = "mutation"
  /\ Settles(r, status)
  /\ pending' = IF r.live THEN pending \ {r.kind} ELSE pending
  /\ IF ResponseInterceptor(status) = "resolve"
     THEN /\ FeedbackAccepted(r)
          /\ toast' = MutationSuccessToast(r.kind)
          /\ modal' = IF r.live THEN ModalAfter(r.kind, modal) ELSE modal
          /\ feedbackRows' = IF r.kind = "createFeedback"
                             THEN Upsert(feedbackRows, r.arg, r.val) ELSE feedbackRows
          /\ predictions' = IF r.kind = "createFeedback"
                            THEN [predictions EXCEPT ![r.arg] = StatusAfterFeedback(@)]
                            ELSE predictions
          /\ LET c == InvalidateQueries(cache, Invalidates(r.kind))
                 K == Invalidates(r.kind) \cap ActiveQueries(mounted, user, c)
                 rs == QueryRequests(c, K)
             IN /\ cache' = StartFetch(c, K)
                /\ inflight' = (inflight (-) One(r)) (+) SetToBag(rs)
                /\ ev' = [EvResp("response", r, status, rs) EXCEPT
                            !.arg = r.val,
                            !.msg = IF r.kind # "createFeedback" THEN ""
                                    ELSE IF RowsOf(feedbackRows, r.arg) # {} THEN "updated"
                                    ELSE "created"]
     ELSE /\ toast' = MutationErrorToast(r.kind, status, detail)
          /\ inflight' = inflight (-) One(r)
          /\ ev' = [EvResp("response", r, status, {}) EXCEPT !.msg = detail]
          /\ UNCHANGED <<modal, cache, feedbackRows, predictions>>
  /\ UNCHANGED <<axiosAuth, user, isAuthenticated, isLoading, authError, startPc,
                 loginPending, loginResult, loginVars, location, mounted, routeId,
                 images, uploadVars, feedbackData, listPage, listData>>

UserLists == {{1}, {1, 2}}

\* the bodies a 2xx answer to a query can carry
QueryPayloads(r) ==
  CASE r.kind = "getUsers" -> UserLists
    [] r.kind = "getPrediction" -> {{i} : i \in ImageIds}
    [] r.kind = "getImage" -> {{r.arg}}
    [] r.kind = "getFeedback" ->
         IF RowsOf(feedbackRows, r.arg) = {} THEN {}
         ELSE {{feedbackRows[i].rating : i \in RowsOf(feedbackRows, r.arg)}}
    [] r.tag \in AllListKeys -> {{1}, 1..ListLimit}
    [] OTHER -> {{}}

\* a query's request settles: the result is written to the cache; a dependent
\* query that became enabled is fetched
SettleQuery(r, status, data) ==
  /\ r.owner = "query"
  /\ Settles(r, status)
  /\ IF ResponseInterceptor(status) = "resolve"
     THEN /\ data \in QueryPayloads(r)
          /\ LET c == [cache EXCEPT ![r.tag] = [status |-> "success", data |-> data,
                                                isFetching |-> FALSE,
                                                isInvalidated |-> FALSE]]
                 K == ActiveQueries(mounted, user, c) \ ActiveQueries(mounted, user, cache)
                 rs == QueryRequests(c, K)
             IN /\ cache' = StartFetch(c, K)
                /\ inflight' = (inflight (-) One(r)) (+) SetToBag(rs)
                /\ ev' = EvResp("response", r, status, rs)
     ELSE /\ data = {}
          /\ cache' = [cache EXCEPT ![r.tag].status = "error", ![r.tag].isFetching = FALSE]
          /\ inflight' = inflight (-) One(r)
          /\ ev' = EvResp("response", r, status, {})
  /\ UNCHANGED <<axiosAuth, user, isAuthenticated, isLoading, authError, startPc,
                 loginPending, loginResult, loginVars, location, mounted, toast, routeId,
                 images, feedbackRows, predictions, uploadVars, modal, pending,
                 feedbackData, listPage>>
  /\ listData' = IF /\ mounted \in ListPages
                    /\ r.tag = ListKey(ListName(mounted), listPage)
                 THEN KeptData(cache', r.tag, listData)
                 ELSE listData

----------------------------------------------------------------------------
(* Specification of the session: sign-in, the Dashboard's requests, sign-out *)

InitAt(paths, stored, ids) ==
  /\ token \in stored
  /\ axiosAuth = NoToken
  /\ user = NullUser
  /\ isAuthenticated = FALSE
  /\ isLoading = TRUE
  /\ authError = Null
  /\ startPc = "start"
  /\ loginPending = 0
  /\ loginResult = [success |-> FALSE, error |-> Null]
  /\ isSubmitting = FALSE
  /\ loginError = Null
  /\ location \in paths
  /\ navPending = FALSE
  /\ mounted = "none"
  /\ inflight = EmptyBag
  /\ toast = NoToast
  /\ file = NoFile
  /\ preview = NoFile
  /\ imageType = "x-ray"
  /\ isUploading = FALSE
  /\ uploadProgress = 0
  /\ progressTimers = 0
  /\ routeId \in ids
  /\ images = {}
  /\ cache = [k \in QueryKeys |-> IdleQuery]
  /\ feedbackRows = <<>>
  /\ predictions = [p \in PredictionIds |-> IF p \in ids THEN "completed" ELSE "none"]
  /\ modal = NoModal
  /\ pending = {}
  /\ feedbackData = 0
  /\ listPage = 1
  /\ listData = {}
  /\ ev = EvNone

vars == <<token, axiosAuth, user, isAuthenticated, isLoading, authError, startPc,
          loginPending, loginResult, isSubmitting, loginError, location, navPending,
          mounted, inflight, toast, file, preview, imageType, isUploading,
          uploadProgress, progressTimers, routeId, images, cache, feedbackRows,
          predictions, modal, pending, feedbackData, listPage, listData, ev>>

Init == InitAt({"/login", "/", "/dashboard", "/nowhere"}, {NoToken} \cup Tokens, {0})

Next ==
  \/ CheckAuthStatus
  \/ \E ok \in BOOLEAN, role \in Roles : CheckAuthStatusResponse(ok, role)
  \/ LoginSubmit
  \/ \E tok \in Tokens, role \in Roles : LoginSuccess(tok, role)
  \/ \E f \in LoginFailures : LoginFailure(f)
  \/ Logout
  \/ Redirect
  \/ PageLoad
  \/ MountLogin
  \/ MountDashboard
  \/ \E r \in DOMAIN inflight, s \in Statuses : Reissue(r, s)
  \/ \E r \in DOMAIN inflight, s \in Statuses : SettleDashboard(r, s)

Spec == Init /\ [][Next]_vars

\* the mount effect of AuthProvider runs once the provider is mounted, and the
\* browser settles every request it sent (a response or a network failure)
SpecStartup ==
  /\ Spec
  /\ WF_vars(CheckAuthStatus)
  /\ WF_vars(\E ok \in BOOLEAN, role \in Roles : CheckAuthStatusResponse(ok, role))

----------------------------------------------------------------------------
(* Specification of the Upload page: the browser is opened at /upload by a    *)
(* reviewer, with or without a token stored by an earlier session             *)

UploadStatuses == {0, 200, 307, 401}

InitUpload == InitAt({"/upload"}, {NoToken, "t1"}, {0})

NextUpload ==
  \/ CheckAuthStatus
  \/ \E ok \in BOOLEAN, role \in {"reviewer"} : CheckAuthStatusResponse(ok, role)
  \/ Logout
  \/ Redirect
  \/ PageLoad
  \/ \E p \in {"/upload", "/profile"} : Navigate(p)
  \/ MountUpload
  \/ \E f \in Files : OnDrop(f)
  \/ ClearFile
  \/ \E t \in {"x-ray", "brain-mri"} : SetImageType(t)
  \/ HandleUpload
  \/ \E r \in DOMAIN inflight, s \in UploadStatuses : Reissue(r, s)
  \/ \E r \in DOMAIN inflight, s \in UploadStatuses, id \in ImageIds, d \in {""} \cup Details :
        SettleUpload(r, s, id, d)
  \/ \E r \in DOMAIN inflight, s \in UploadStatuses, id \in PredictionIds, d \in {""} \cup Details :
        SettlePrediction(r, s, id, d)

SpecUpload == InitUpload /\ [][NextUpload]_vars

\* a response to a request in flight reaches the response interceptor
ApiResponse ==
  \E r \in DOMAIN inflight, s \in UploadStatuses :
    \/ Reissue(r, s)
    \/ \E id \in ImageIds, d \in {""} \cup Details : SettleUpload(r, s, id, d)
    \/ \E id \in PredictionIds, d \in {""} \cup Details : SettlePrediction(r, s, id, d)

\* the upload page over a network that answers every transmission: while a
\* request is in flight a response (or a network error, status 0) arrives
SpecSettle == SpecUpload /\ WF_vars(ApiResponse)

----------------------------------------------------------------------------
(* Specification of the route guards: the browser is opened at /login, / or a *)
(* protected page; the user signs in and out and uses the sidebar; react-     *)
(* router performs the navigation of a rendered <Navigate> element            *)

InitGuards == InitAt({"/login", "/", "/dashboard", "/users"}, {NoToken} \cup Tokens, {0})

NextGuards ==
  \/ CheckAuthStatus
  \/ \E ok \in BOOLEAN, role \in {"doctor", "admin"} : CheckAuthStatusResponse(ok, role)
  \/ LoginSubmit
  \/ \E tok \in Tokens, role \in {"doctor", "admin"} : LoginSuccess(tok, role)
  \/ \E f \in LoginFailures : LoginFailure(f)
  \/ Logout
  \/ Redirect
  \/ MountLogin
  \/ \E p \in {"/dashboard", "/users", "/profile"} : Navigate(p)

SpecGuards == InitGuards /\ [][NextGuards]_vars /\ WF_vars(Redirect)

----------------------------------------------------------------------------
(* Specification of the upload progress: the browser is opened at /upload by *)
(* a doctor who stays on the page; the progress interval ticks                *)

ProgressStatuses == {0, 200, 500}


NextProgress ==
  \/ CheckAuthStatus
  \/ \E ok \in BOOLEAN : CheckAuthStatusResponse(ok, "doctor")
  \/ Redirect
  \/ MountUpload
  \/ \E f \in Files : OnDrop(f)
  \/ ClearFile
  \/ \E t \in ImageTypes : SetImageType(t)
  \/ HandleUpload
  \/ ProgressTick
  \/ \E r \in DOMAIN inflight, s \in ProgressStatuses, id \in ImageIds, d \in {""} \cup Details :
        SettleUpload(r, s, id, d)
  \/ \E r \in DOMAIN inflight, s \in ProgressStatuses, id \in PredictionIds, d \in {""} \cup Details :
        SettlePrediction(r, s, id, d)

SpecProgress == InitUpload /\ [][NextProgress]_vars

\* the Upload page with the sidebar: the user may leave the page and come back
\* while a run of handleUpload is still awaiting its responses
InitRuns == InitAt({"/upload"}, {"t1"}, {0})
NextRuns ==
  \/ CheckAuthStatus
  \/ CheckAuthStatusResponse(TRUE, "doctor")
  \/ MountUpload
  \/ \E f \in {g \in Files : OnDropRejects(g) = ""} : OnDrop(f)
  \/ ClearFile
  \/ \E t \in {"x-ray", "brain-mri"} : SetImageType(t)
  \/ HandleUploadUpTo(MaxOverlappingRuns)
  \/ \E p \in {"/upload", "/profile"} : Navigate(p)
  \/ \E r \in DOMAIN inflight, s \in ProgressStatuses, id \in ImageIds, d \in {""} :
        SettleUpload(r, s, id, d)
  \/ \E r \in DOMAIN inflight, s \in ProgressStatuses, id \in PredictionIds, d \in {""} :
        SettlePrediction(r, s, id, d)
SpecRuns == InitRuns /\ [][NextRuns]_vars

----------------------------------------------------------------------------
(* Specification of user management: the browser is opened at /users by a    *)
(* user of any role, with a token stored by an earlier session               *)

PageStatuses == {200, 401, 404, 500}

InitUsers == InitAt({"/users"}, {NoToken, "t1"}, {0})

NextUsers ==
  \/ CheckAuthStatus
  \/ \E ok \in BOOLEAN, role \in Roles : CheckAuthStatusResponse(ok, role)
  \/ Logout
  \/ Redirect
  \/ PageLoad
  \/ MountUserManagement
  \/ OpenAddModal
  \/ \E u \in UserIds : OpenEditModal(u)
  \/ CloseModal
  \/ HandleAddUser
  \/ HandleUpdateUser
  \/ \E u \in UserIds, ok \in BOOLEAN : HandleDeleteUser(u, ok)
  \/ \E r \in DOMAIN inflight, s \in PageStatuses, d \in {""} \cup Details :
        SettleMutation(r, s, d)
  \/ \E r \in DOMAIN inflight, s \in PageStatuses :
        \E data \in QueryPayloads(r) \cup {{}} : SettleQuery(r, s, data)

SpecUsers == InitUsers /\ [][NextUsers]_vars

----------------------------------------------------------------------------
(* Specification of the prediction detail page: the browser is opened at    *)
(* /predictions/:id by a doctor (the page reads no role)                    *)

InitDetail == InitAt({"/predictions/:id"}, {NoToken, "t1"}, PredictionIds)

NextDetail ==
  \/ CheckAuthStatus
  \/ \E ok \in BOOLEAN : CheckAuthStatusResponse(ok, "doctor")
  \/ Logout
  \/ Redirect
  \/ PageLoad
  \/ MountPredictionDetail
  \/ \E v \in {"0", "1", "5"} : HandleFeedbackChange(v)
  \/ HandleSubmitFeedback
  \/ HandleGenerateReport
  \/ \E r \in DOMAIN inflight, s \in PageStatuses, d \in {""} \cup Details :
        SettleMutation(r, s, d)
  \/ \E r \in DOMAIN inflight, s \in PageStatuses :
        \E data \in QueryPayloads(r) \cup {{}} : SettleQuery(r, s, data)

SpecDetail == InitDetail /\ [][NextDetail]_vars

----------------------------------------------------------------------------
(* Specification of the lists: the browser is opened at /history, /reports   *)
(* or /dashboard by a doctor, who pages through the list shown                *)

ListStatuses == {200, 401, 500}

InitLists == InitAt({"/history", "/reports", "/dashboard"}, {NoToken, "t1"}, {0})

NextLists ==
  \/ CheckAuthStatus
  \/ \E ok \in BOOLEAN : CheckAuthStatusResponse(ok, "doctor")
  \/ Redirect
  \/ PageLoad
  \/ MountHistory
  \/ MountReports
  \/ MountDashboard
  \/ \E page \in ListPages : HandleNextPage(page)
  \/ \E page \in ListPages : HandlePreviousPage(page)
  \/ \E r \in DOMAIN inflight, s \in ListStatuses : SettleDashboard(r, s)
  \/ \E r \in DOMAIN inflight, s \in ListStatuses :
        \E data \in QueryPayloads(r) \cup {{}} : SettleQuery(r, s, data)

SpecLists == InitLists /\ [][NextLists]_vars

----------------------------------------------------------------------------
(* Properties *)

\* C1: a login whose POST /api/auth/token fails (error response or network
\* failure) writes no token to localStorage, installs no default Authorization
\* header, leaves user null and isAuthenticated false, sets authError to a
\* non-empty message (the response's detail when it has one), returns
\* success=false with that same message, and the Login page shows it.
C1_FailedLoginSetsNoToken ==
  [][ (ev'.op = "loginResponse" /\ ev'.outcome = "reject") =>
        /\ token' = token
        /\ axiosAuth' = axiosAuth
        /\ user' = NullUser
        /\ ~isAuthenticated'
        /\ authError' \notin {Null, ""}
        /\ (ev'.msg # "" => authError' = ev'.msg)
        /\ loginResult' = [success |-> FALSE, error |-> authError']
        /\ App(location', isLoading', isAuthenticated', user') = "Login"
        /\ LoginDisplayedError' = authError' ]_vars

C1_Witness ==
  /\ ev.op = "loginResponse" /\ ev.outcome = "reject"
  /\ ev.msg \in Details
  /\ authError = ev.msg
  /\ View = "Login"

\* C2: whenever a request of the api client is answered 401, the stored token
\* is removed, window.location.href is set to /login, and the request is
\* rejected: its caller runs its failure path and nothing is sent again.
C2_UnauthorizedClearsToken ==
  (ev.op = "response" /\ ev.status = 401) =>
      /\ token = NoToken
      /\ navPending
      /\ ev.outcome = "reject401"
      /\ ev.sent = {}
      /\ toast.type = "error"

C2_Witness ==
  /\ ev.op = "response" /\ ev.status = 401
  /\ ev.tok \in Tokens
  /\ token = NoToken
  /\ navPending

\* C3: a dropped file larger than 16*1024*1024 bytes leaves the selected file
\* and the preview as they were and shows an error, a file of exactly that size
\* (of an image type) is selected, and no image upload request ever carries a
\* file larger than the limit.
C3_OversizeRejected ==
  [][ /\ (ev'.op = "onDrop" /\ ev'.arg > MaxUploadSize) =>
           (file' = file /\ preview' = preview /\ toast'.type = "error")
      /\ (ev'.op = "onDrop" /\ ev'.arg = MaxUploadSize /\ ev'.msg = "image") =>
           (file'.size = MaxUploadSize /\ preview' = file')
      /\ \A s \in ev'.sent : s.kind = "uploadImage" => s.arg <= MaxUploadSize ]_vars

C3_Witness ==
  /\ ev.op = "onDrop" /\ ev.arg > MaxUploadSize /\ ev.msg = "image"
  /\ file = NoFile
  /\ toast = Toast("error", "File size exceeds 16MB limit")

\* C4: a create-prediction request is first sent only in the step that handles
\* the successful answer of the image upload, with exactly the id that answer
\* carried (an image the server has stored); a failed upload sends none.
C4_PredictionAfterUpload ==
  /\ \A s \in ev.sent : (s.kind = "createPrediction" /\ ev.outcome # "reissue") =>
        /\ ev.op = "response" /\ ev.kind = "uploadImage"
        /\ ValidateStatus(ev.status)
        /\ s.arg = ev.arg
        /\ s.arg \in images
  /\ (ev.op = "response" /\ ev.kind = "uploadImage" /\ ~ValidateStatus(ev.status)) =>
        \A s \in ev.sent : s.kind # "createPrediction"
  /\ \A r \in DOMAIN inflight : r.kind = "createPrediction" => r.arg \in images

C4_Witness ==
  /\ ev.op = "response" /\ ev.kind = "uploadImage" /\ ev.status = 200
  /\ \E s \in ev.sent : s.kind = "createPrediction" /\ s.arg = ev.arg /\ s.arg \in images

\* C5: at most one Feedback row exists per prediction; every submission from
\* the detail page of a prediction names that prediction and the rating
\* selected; the first successful submission creates the row and every later
\* one replaces its content instead of adding a row.
C5_FeedbackUpserted ==
  [][ /\ \A p \in PredictionIds : Cardinality(RowsOf(feedbackRows', p)) <= 1
      /\ ev'.op = "handleSubmitFeedback" =>
            \A s \in ev'.sent : /\ s.kind = "createFeedback"
                                /\ s.arg = routeId
                                /\ s.val = feedbackData /\ s.val \in 1..5
      /\ (ev'.op = "response" /\ ev'.kind = "createFeedback" /\ ev'.outcome = "resolve") =>
            /\ \E i \in DOMAIN feedbackRows' :
                  /\ RowsOf(feedbackRows', routeId) = {i}
                  /\ feedbackRows'[i].rating = ev'.arg
            /\ Len(feedbackRows') =
                  IF RowsOf(feedbackRows, routeId) # {} THEN Len(feedbackRows)
                  ELSE Len(feedbackRows) + 1 ]_vars

C5_Witness ==
  /\ ev.op = "response" /\ ev.kind = "createFeedback" /\ ev.outcome = "resolve"
  /\ ev.msg = "updated"
  /\ feedbackRows = <<[diagnosis_id |-> routeId, rating |-> 5]>>

\* C6: for an authenticated user whose role is not admin, the /users route
\* renders a redirect to /dashboard and never the UserManagement page, the page
\* itself would render Access Denied, its users query is disabled, and no step
\* taken on behalf of such a user sends the users list request.
C6_NonAdminNeverSeesUsers ==
  /\ \A role \in Roles \ {"admin"} :
        /\ UserManagementView([id |-> 1, role |-> role], cache["users"]) = "AccessDenied"
        /\ ~UsersQueryEnabled([id |-> 1, role |-> role])
  /\ (isAuthenticated /\ ~isLoading /\ user.role # "admin" /\ location = "/users") =>
        View = "redirect:/dashboard"
  /\ (isAuthenticated /\ user.role # "admin") => mounted # "UserManagement"
  /\ ev.role # "admin" => \A s \in ev.sent : s.kind # "getUsers"

C6_Witness ==
  /\ ev.op = "redirect" /\ ev.msg = "/dashboard"
  /\ isAuthenticated /\ ~isLoading
  /\ user.role \in {"doctor", "reviewer"}
  /\ location = "/dashboard"
  /\ cache["users"] = IdleQuery

\* C7 (as claimed): a reviewer never triggers a create-prediction or
\* create-report request, and only an admin triggers create/update/delete
\* user requests.
C7_RoleLimitsMutations ==
  \A s \in ev.sent :
    /\ s.kind \in {"createPrediction", "createReport"} => ev.role # "reviewer"
    /\ s.kind \in {"createUser", "updateUser", "deleteUser"} => ev.role = "admin"

\* C8 (as claimed): a request is transmitted once per user action: the step
\* that handles a response to it never transmits it again, and a non-success
\* response never makes the client send anything.
C8_NoRetry ==
  /\ ev.outcome # "reissue"
  /\ (ev.op = "response" /\ ~ValidateStatus(ev.status)) => ev.sent = {}

\* C8 (amended): the api client re-issues a request only in the step that
\* handles a 307 or 308 response to it; every other non-success response is
\* terminal: the request is rejected and nothing is sent.
C8_ReissueOnlyOnRedirect ==
  /\ ev.outcome = "reissue" =>
        /\ ev.op = "response" /\ ev.status \in Redirects
        /\ \E s \in ev.sent : ev.sent = {s} /\ s.kind = ev.kind
  /\ (ev.op = "response" /\ ~ValidateStatus(ev.status) /\ ev.status \notin Redirects) =>
        (ev.sent = {} /\ ev.outcome \in {"reject", "reject401"})

C8_Witness ==
  /\ ev.op = "response" /\ ev.status \in Redirects
  /\ ev.outcome = "reissue"
  /\ \E s \in ev.sent : s.kind = ev.kind /\ BagIn(s, inflight)

\* C9 (as claimed): in the step that handles the successful answer of a
\* mutation, the cached query of the resource the mutation changed (users,
\* the prediction's feedback, reports) is invalidated or being refetched,
\* unless that query was never fetched.
C9_MutationInvalidates ==
  (ev.op = "response" /\ ev.outcome = "resolve"
     /\ ev.kind \in UserMutations \cup {"createFeedback", "createReport"}) =>
    LET k == CASE ev.kind \in UserMutations -> "users"
               [] ev.kind = "createFeedback" -> "feedback"
               [] OTHER -> "reports"
    IN \/ cache[k].status = "idle"
       \/ cache[k].isInvalidated
       \/ cache[k].isFetching

\* C10 (as claimed): every transmission of the api client carries the token
\* stored in localStorage at that moment, and no Authorization header when
\* none is stored.
C10_HeaderIsStoredToken ==
  \A s \in ev.sent : s.hdr = ev.tok

\* C11 (as claimed): whenever an operation of a page (upload and analyze,
\* create/update/delete user, submit feedback, generate report) fails with a
\* response that carries a detail message, the toast shown displays that
\* detail.
C11_ToastShowsDetail ==
  (/\ ev.op = "response" /\ ev.outcome \in {"reject", "reject401"}
   /\ ev.status # 0 /\ ev.msg # ""
   /\ ev.kind \in {"uploadImage", "createPrediction", "createFeedback", "createReport"}
                  \cup UserMutations) =>
     /\ toast.type = "error"
     /\ (toast.msg = ev.msg \/ toast.detail = ev.msg)

\* C12: every create-feedback request handleSubmitFeedback transmits carries a
\* rating in 1..5, whatever form changes came before; with the rating at its
\* initial 0 the handler transmits nothing.
C12_RatingInRange ==
  [][ /\ (\A s \in ev'.sent : s.kind = "createFeedback" => s.val \in 1..5)
      /\ (ev'.op = "handleSubmitFeedback" =>
            feedbackData \in 1..5 /\ ev'.sent # {}) ]_vars

C12_Witness ==
  /\ ev.op = "handleSubmitFeedback"
  /\ \E s \in ev.sent : s.kind = "createFeedback" /\ s.val = 5 /\ s.arg = routeId
  /\ feedbackData = 5

\* C13: the status of a Prediction row changes only along
\* pending -> completed -> reviewed (a new row starts at pending or completed),
\* a row has status reviewed exactly when a Feedback row references it, and
\* after a successful feedback submission the prediction it was made for is
\* reviewed.
C13_StatusMovesForward ==
  [][ /\ \A p \in PredictionIds :
            /\ predictions'[p] # predictions[p] =>
                  <<predictions[p], predictions'[p]>> \in
                     {<<"none", "pending">>, <<"none", "completed">>,
                      <<"pending", "completed">>, <<"completed", "reviewed">>}
            /\ predictions'[p] = "reviewed" <=> RowsOf(feedbackRows', p) # {}
      /\ (ev'.op = "response" /\ ev'.kind = "createFeedback" /\ ev'.outcome = "resolve") =>
            predictions'[routeId] = "reviewed" ]_vars

C13_Witness ==
  /\ ev.op = "response" /\ ev.kind = "createFeedback" /\ ev.outcome = "resolve"
  /\ ev.msg = "created"
  /\ predictions[routeId] = "reviewed"
  /\ RowsOf(feedbackRows, routeId) # {}

\* C14: at a protected route the page is rendered only when isLoading is false,
\* isAuthenticated is true and the user's role equals the route's required role
\* if it has one; while isLoading is true the route renders the loading
\* placeholder (no page, no redirect); when not loading and not authenticated it
\* redirects to /login.  A protected page's component is mounted only in such
\* a state.
C14_ProtectedPageGuard ==
  /\ location \in ProtectedPaths =>
        /\ isLoading => View = "loading"
        /\ (~isLoading /\ ~isAuthenticated) => View = "redirect:/login"
        /\ View = PageOf(location) =>
              /\ ~isLoading /\ isAuthenticated
              /\ RequiredRole(location) # "" => user.role = RequiredRole(location)
  /\ mounted \notin {"none", "Login"} =>
        /\ mounted = View /\ location \in ProtectedPaths
        /\ ~isLoading /\ isAuthenticated

C14_Witness ==
  /\ location = "/users" /\ View = "UserManagement" /\ mounted = "UserManagement"
  /\ ~isLoading /\ isAuthenticated /\ user.role = "admin"

\* C15, step by step: what checkAuthStatus writes with and without a stored
\* token, and on each answer to GET /api/auth/me
C15_StartupSteps ==
  [][ /\ (ev'.op = "checkAuthStatus" =>
            IF token = NoToken
            THEN /\ startPc' = "done" /\ ~isLoading'
                 /\ ~isAuthenticated' /\ token' = NoToken /\ axiosAuth' = axiosAuth
            ELSE /\ startPc' = "awaitMe" /\ isLoading'
                 /\ axiosAuth' = token /\ token' = token)
      /\ (ev'.op = "checkAuthStatusResponse" =>
            /\ startPc' = "done" /\ ~isLoading'
            /\ IF ev'.outcome = "resolve"
               THEN /\ isAuthenticated' /\ user' # NullUser /\ user'.role \in Roles
                    /\ token' = token /\ axiosAuth' = token
               ELSE /\ token' = NoToken /\ axiosAuth' = NoToken
                    /\ ~isAuthenticated' /\ user' = NullUser) ]_vars

\* C15: after every application load the startup token check finishes, and it
\* finishes with isLoading false.  With no stored token it awaits nothing and
\* isAuthenticated stays false; with a stored token it installs the default
\* Authorization header and awaits GET /api/auth/me: when that is accepted user
\* is the response and isAuthenticated is true, when it is rejected or fails
\* the token and the default header are removed and isAuthenticated stays
\* false.
C15_StartupCheckFinishes ==
  C15_StartupSteps /\ ((startPc # "done") ~> (startPc = "done" /\ ~isLoading))

C15_Witness ==
  /\ ev.op = "checkAuthStatusResponse" /\ ev.outcome = "reject"
  /\ ev.tok \in Tokens
  /\ token = NoToken /\ axiosAuth = NoToken
  /\ startPc = "done" /\ ~isLoading /\ ~isAuthenticated

\* C16: whatever the state logout is called in, right after it no token is
\* stored, the default Authorization header is absent, user is null and
\* isAuthenticated is false, and the location is /login; applying logout() to
\* the session it left changes nothing.
C16_LogoutClearsSession ==
  [][ ev'.op = "logout" =>
        /\ token' = NoToken
        /\ axiosAuth' = NoToken
        /\ user' = NullUser
        /\ ~isAuthenticated'
        /\ location' = "/login"
        /\ LogoutSession(Session') = Session' ]_vars

C16_Witness ==
  /\ ev.op = "logout"
  /\ ev.tok \in Tokens /\ ev.role \in Roles
  /\ token = NoToken /\ axiosAuth = NoToken /\ user = NullUser /\ ~isAuthenticated
  /\ location = "/login"

\* C17 (as claimed): in every reachable state, isAuthenticated true implies
\* that user is non-null and that a token is stored in localStorage.
C17_AuthenticatedHasToken ==
  isAuthenticated => (user # NullUser /\ token # NoToken)

\* C18: at most one POST /api/auth/token is in flight; a login is submitted and
\* answered only after the startup token check has finished, and while a login
\* is in flight the login form is not on screen; while the startup check awaits
\* GET /api/auth/me the stored token is the one it read or has been removed by
\* logout, never one written by a login, so its failure branch cannot remove a
\* login's token or header.
C18_NoOverlap ==
  /\ loginPending <= 1
  /\ loginPending > 0 => (startPc = "done" /\ isLoading /\ View # "Login")
  /\ ev.op \in {"loginSubmit", "loginResponse"} => startPc = "done"
  /\ startPc = "awaitMe" => (token \in {NoToken, axiosAuth} /\ loginPending = 0)

C18_Witness ==
  /\ ev.op = "loginSubmit"
  /\ loginPending = 1 /\ isLoading /\ startPc = "done"
  /\ loginResult.error # Null

\* C19 (as claimed): the upload request handleUpload sends carries the selected
\* file together with the image type selected in the dropdown.
C19_UploadCarriesImageType ==
  [][ ev'.op = "handleUpload" =>
        \A s \in ev'.sent :
            s.kind = "uploadImage" => (s.arg = file.size /\ s.tag = imageType) ]_vars

\* C20 (as claimed): for every page p shown by History or Reports the list
\* request sent asks for skip = (p - 1) * 10 and limit = 10, and the
\* Dashboard's recent-diagnoses request asks for limit 5.
C20_ListRequestCarriesSkipAndLimit ==
  [][ \A s \in ev'.sent :
        /\ (s.owner = "query" /\ s.tag \in AllListKeys) =>
              s.query = [skip |-> (listPage' - 1) * ListLimit, limit |-> ListLimit]
        /\ s.owner = "recentDiagnoses" => s.query.limit = 5 ]_vars

\* C21 (as claimed): whenever isUploading is false, uploadProgress is 0 and no
\* progress interval is running.
C21_IdleUploadHasNoProgress ==
  ~isUploading => (uploadProgress = 0 /\ progressTimers = 0)

\* C22 (as claimed): at most one upload-and-analyze run is in flight at any
\* time, that is at most one request of handleUpload awaits its response.
C22_AtMostOneRun ==
  UploadRuns <= 1

\* C23 (as claimed): every request sent through the api client eventually
\* settles: a run of handleUpload that has a request in flight is followed by a
\* state in which none of its requests is in flight.
C23_EveryRequestSettles ==
  (UploadRuns > 0) ~> (UploadRuns = 0)

\* C24: every navigation performed by a route guard.  AuthLayout leaves /login
\* for /dashboard only when authenticated and not loading, ProtectedRoute
\* leaves a protected page for /login only when not authenticated and not
\* loading, while loading only the "/" route redirects, and the view a guard
\* redirects to is not a redirect again.
C24_GuardSteps ==
  [][ (ev'.op = "redirect") =>
        ( /\ (location = "/login") =>
               (isAuthenticated /\ ~isLoading /\ location' = "/dashboard")
          /\ (location' = "/login") =>
               (location \in ProtectedPaths /\ ~isAuthenticated /\ ~isLoading)
          /\ isLoading => (location = "/")
          /\ (location # "/") => (RedirectTarget(View') = "") ) ]_vars

\* C24: the two guards never redirect in the same auth state, each redirects
\* only as C24_GuardSteps says, and navigation settles: a view that is a
\* redirect is followed by the login form, the loading view or a page.
C24_NavigationSettles ==
  /\ C24_GuardSteps
  /\ [](~(RedirectTarget(AuthLayout(isLoading, isAuthenticated)) # ""
          /\ ProtectedRoute("/dashboard", isLoading, isAuthenticated, user)
               = "redirect:/login"))
  /\ ((RedirectTarget(View) # "") ~> (RedirectTarget(View) = ""))

\* C24 witness: ProtectedRoute has sent a signed-out visitor to /login and the
\* login form is shown.
C24_Witness ==
  /\ ev.op = "redirect" /\ ev.msg = "/login"
  /\ location = "/login" /\ View = "Login"
  /\ ~isAuthenticated /\ ~isLoading

\* C25: every create-prediction request in flight was started with an image
\* type of the upload form and carries a configured model name: brain-mri for
\* the type brain-mri and chest-xray for every other type.
C25_ModelNameConfigured ==
  \A r \in DOMAIN inflight :
    (r.kind = "createPrediction") =>
      /\ r.ctx \in ImageTypes
      /\ r.tag \in ConfiguredModels
      /\ r.tag = (IF r.ctx = "brain-mri" THEN "brain-mri" ELSE "chest-xray")

\* C25 witness: an upload started with the type ct-scan has succeeded and its
\* create-prediction request is in flight with the model name chest-xray.
C25_Witness ==
  \E r \in DOMAIN inflight :
    /\ r.kind = "createPrediction"
    /\ r.ctx = "ct-scan"
    /\ r.tag = "chest-xray"
    /\ ev.op = "response"
====
